---- MODULE Spec2Model ----
(***************************************************************************)
(* Model of pkg/template/processor.go: Processor.Apply with                *)
(* createOrUpdateObj (create, or on "already exists" get-and-update), and  *)
(* Processor.Process (parameter override, expansion, conversion, filter).  *)
(*                                                                         *)
(* Four specifications share the variables: Spec runs one Apply call       *)
(* against a cluster that other clients may write to; AgainSpec runs Apply *)
(* twice over the same sequence with no other client; SeqSpec runs one     *)
(* Apply call with every cluster call split into its request and its       *)
(* answer; ProcSpec runs Process on a template.                            *)
(***************************************************************************)
EXTENDS Integers, Sequences, FiniteSets, TLC

VARIABLES
    \* ---- Apply ----
    rendered,   \* the objs argument as the caller rendered it
    objs,       \* the objs argument; its objects are pointers, mutated in place
    cluster,    \* resource identity -> resource stored on the cluster
    rev,        \* the cluster's version counter (source of version tokens)
    enforce,    \* the cluster rejects an Update that carries no version token
    pc,         \* position of Apply: "loop", "create", "get", "update", "done"
    i,          \* index of the range loop of Apply (1-based)
    existing,   \* the local `existing` of createOrUpdateObj
    log,        \* cluster calls issued by the current Apply call, in order
    result,     \* what Apply returned: "none" while running, "ok", "err"
    applyNo,    \* 1 during the first Apply call, 2 during the second
    prev,       \* the cluster before the first Apply call; during the second, the
                \* first call's result, the cluster as it left it, and whether the
                \* sequence was rendered afresh
    others,     \* writes by other clients during the Apply call so far
    inflight,   \* cluster calls issued and not yet answered (tracked in SeqSpec)
    \* ---- Process ----
    given,      \* the template as the caller passed it
    tmpl,       \* the caller's template (a pointer): parameters and objects
    values,     \* the override map
    filters,    \* the filter chain
    pending,    \* keys of `values` the range loop has not visited yet
    ppc,        \* position of Process: "inject", "expand", "convert", "filter", "done"
    steps,      \* steps Process has performed, in order
    atExpand,   \* the parameters as expansion received them
    converted,  \* result.Objects, the objects of the converted template
    pres        \* what Process returned

applyVars == <<rendered, objs, cluster, rev, enforce, pc, i, existing, log,
               result, applyNo, prev, others, inflight>>
procVars  == <<given, tmpl, values, filters, pending, ppc, steps, atExpand,
               converted, pres>>
vars      == <<applyVars, procVars>>

(***************************************************************************)
(* Bounds                                                                  *)
(***************************************************************************)
MaxObjs  == 2      \* longest objs sequence
MaxOther == 1      \* writes by other clients in one behaviour
MaxParams == 2     \* most parameters of a template

(***************************************************************************)
(* Objects and the cluster                                                 *)
(***************************************************************************)
\* Resource identities: kind, apiVersion, namespace, name.
Keys ==
    { [kind |-> "NSTemplateTier", apiVersion |-> "v1alpha1", namespace |-> "ns1", name |-> "basic"],
      [kind |-> "Namespace",      apiVersion |-> "v1",       namespace |-> "ns2", name |-> "dev"] }

Datas == {"d1", "d2"}     \* desired states a rendered object may carry

\* A RawExtension whose Object is nil.
NilEntry ==
    [nil |-> TRUE, typed |-> FALSE, kind |-> "", apiVersion |-> "", namespace |-> "",
     name |-> "", data |-> "", rv |-> 0]

\* A RawExtension with an object: typed = FALSE is *unstructured.Unstructured.
\* rv = 0 is the empty resourceVersion of a freshly rendered object.
ObjEntry(typed, k, d) ==
    [nil |-> FALSE, typed |-> typed, kind |-> k.kind, apiVersion |-> k.apiVersion,
     namespace |-> k.namespace, name |-> k.name, data |-> d, rv |-> 0]

Entries == {NilEntry} \cup { ObjEntry(t, k, d) : t \in BOOLEAN, k \in Keys, d \in Datas }

SeqsUpTo(S, n) == UNION { [1..m -> S] : m \in 0..n }

NoRes == [exists |-> FALSE, data |-> "", rv |-> 0]
Res(d, v) == [exists |-> TRUE, data |-> d, rv |-> v]

\* The identity under which the client addresses an object in Create and Update.
ObjKey(o) ==
    [kind |-> o.kind, apiVersion |-> o.apiVersion, namespace |-> o.namespace, name |-> o.name]

\* The identity of the Get: kind and apiVersion set on `existing`, and the
\* NamespacedName built from the desired object.
GetKey(u) ==
    [kind |-> u.kind, apiVersion |-> u.apiVersion, namespace |-> u.namespace, name |-> u.name]

Lookup(k) == IF k \in DOMAIN cluster THEN cluster[k] ELSE NoRes

\* obj == nil
IsNil(e) == e.nil

\* Every object taken for the generic form.
IsUnstructuredAlways(o) == TRUE

\* obj.(*unstructured.Unstructured)
IsUnstructured(o) == ~o.typed

\* The fetched token is not set on the desired object.
StampNothing(u, ex) == u

\* u.SetResourceVersion(existing.GetResourceVersion())
Stamp(u, ex) == [u EXCEPT !.rv = ex.rv]

Call(op, pos, k, v, d, res) ==
    [op |-> op, pos |-> pos, key |-> k, rv |-> v, data |-> d, res |-> res]

(***************************************************************************)
(* The cluster's answers.  "error" is any failure that is none of the      *)
(* classified ones (network, admission, ...) and may strike any call.      *)
(***************************************************************************)
CreateOutcomes(o) ==
    {"error"} \cup (IF Lookup(ObjKey(o)).exists THEN {"exists"} ELSE {"ok"})

GetOutcomes(k) ==
    {"error"} \cup (IF Lookup(k).exists THEN {"ok"} ELSE {"notfound"})

UpdateOutcomes(o) ==
    {"error"} \cup
    (IF ~Lookup(ObjKey(o)).exists THEN {"notfound"}
     ELSE IF o.rv = 0 THEN (IF enforce THEN {"invalid"} ELSE {"ok"})
     ELSE IF o.rv # Lookup(ObjKey(o)).rv THEN {"conflict"}
     ELSE {"ok"})

\* A successful write stores the object's state under a fresh version token,
\* and the client decodes the stored object back into obj.
Store(o) == [cluster EXCEPT ![ObjKey(o)] = Res(o.data, rev + 1)]
WrittenBack(o) == [o EXCEPT !.rv = rev + 1]

(***************************************************************************)
(* Apply                                                                   *)
(***************************************************************************)
ApplyInit ==
    /\ rendered \in SeqsUpTo(Entries, MaxObjs)
    /\ objs = rendered
    /\ cluster \in [Keys -> {NoRes, Res("d0", 1)}]
    /\ rev = 1
    /\ enforce \in BOOLEAN
    /\ pc = "loop"
    /\ i = 1
    /\ existing = NoRes
    /\ log = <<>>
    /\ result = "none"
    /\ applyNo = 1
    /\ prev = [result |-> "none", cluster |-> cluster, fresh |-> FALSE]
    /\ others = 0
    /\ inflight = {}

\* A nil object ends the loop.
LoopTargetNilStops(e) == IF IsNil(e) THEN "done" ELSE "create"

\* for _, rawObj := range objs { obj := rawObj.Object; if obj == nil { continue } ...
\* and, past the last entry, return nil.
LoopTarget(e) == IF IsNil(e) THEN "loop" ELSE "create"

ApplyLoop ==
    /\ pc = "loop"
    /\ IF i > Len(objs)
       THEN /\ pc' = "done"
            /\ result' = "ok"
            /\ i' = i
       ELSE /\ pc' = LoopTarget(objs[i])
            /\ i' = IF IsNil(objs[i]) THEN i + 1 ELSE i
            /\ result' = result
    /\ UNCHANGED <<rendered, objs, cluster, rev, enforce, existing, log, applyNo,
                   prev, others>>

\* A successful Create falls through to the update path.
AfterCreateOkUpdates(o, res) ==
    IF res = "ok" THEN (IF IsUnstructured(o) THEN "get" ELSE "update")
    ELSE IF res # "exists" THEN "done"
    ELSE IF IsUnstructured(o) THEN "get"
    ELSE "update"

\* A Create error is swallowed and the loop goes on.
AfterCreateSwallows(o, res) ==
    IF res = "ok" THEN "loop"
    ELSE IF res # "exists" THEN "loop"
    ELSE IF IsUnstructured(o) THEN "get"
    ELSE "update"

\* "Already exists" is taken for success: no update follows.
AfterCreateExistsIsDone(o, res) ==
    IF res = "ok" THEN "loop"
    ELSE IF res # "exists" THEN "done"
    ELSE "loop"

\* A Create that fails other than "already exists" is tried again.
AfterCreateRetries(o, res) ==
    IF res = "ok" THEN "loop"
    ELSE IF res # "exists" THEN "create"
    ELSE IF IsUnstructured(o) THEN "get"
    ELSE "update"

\* Where createOrUpdateObj goes after cl.Create answered.
AfterCreate(o, res) ==
    IF res = "ok" THEN "loop"
    ELSE IF res # "exists" THEN "done"
    ELSE IF IsUnstructured(o) THEN "get"
    ELSE "update"

\* cl.Create(context.TODO(), obj)
DoCreate ==
    /\ pc = "create"
    /\ \E res \in CreateOutcomes(objs[i]) :
        /\ log' = Append(log, Call("Create", i, ObjKey(objs[i]), objs[i].rv, objs[i].data, res))
        /\ pc' = AfterCreate(objs[i], res)
        /\ IF res = "ok"
           THEN /\ cluster' = Store(objs[i])
                /\ rev' = rev + 1
                /\ objs' = [objs EXCEPT ![i] = WrittenBack(objs[i])]
           ELSE UNCHANGED <<cluster, rev, objs>>
        /\ i' = IF pc' = "loop" THEN i + 1 ELSE i
        /\ result' = IF pc' = "done" THEN "err" ELSE result
    /\ UNCHANGED <<rendered, enforce, existing, applyNo, prev, others>>

\* A Get error is ignored and the update goes out.
AfterGetIgnoresError(res) == "update"

\* Where createOrUpdateObj goes after cl.Get answered.
AfterGet(res) == IF res = "ok" THEN "update" ELSE "done"

\* existing := &unstructured.Unstructured{}; ...; err = cl.Get(..., existing)
DoGet ==
    /\ pc = "get"
    /\ \E res \in GetOutcomes(GetKey(objs[i])) :
        /\ existing' = IF res = "ok" THEN Lookup(GetKey(objs[i])) ELSE NoRes
        /\ log' = Append(log, Call("Get", i, GetKey(objs[i]), existing'.rv, existing'.data, res))
        /\ pc' = AfterGet(res)
        /\ result' = IF pc' = "done" THEN "err" ELSE result
    /\ UNCHANGED <<rendered, objs, cluster, rev, enforce, i, applyNo, prev, others>>

\* The desired object goes to cl.Update as rendered, whatever its form.
UpdateArgUnstamped(o) == o

\* The generic object takes the existing resource's state along with its token.
UpdateArgMerged(o) ==
    IF IsUnstructured(o) THEN [Stamp(o, existing) EXCEPT !.data = existing.data] ELSE o

\* The object handed to cl.Update: the generic one is stamped with the token
\* of `existing`, the typed one goes as it is.
UpdateArg(o) == IF IsUnstructured(o) THEN Stamp(o, existing) ELSE o

\* An Update error is swallowed and the loop goes on.
AfterUpdateSwallows(res) == "loop"

\* A version conflict sends createOrUpdateObj back to the Get.
AfterUpdateRetries(res) ==
    IF res = "ok" THEN "loop" ELSE IF res = "conflict" THEN "get" ELSE "done"

\* Where createOrUpdateObj goes after cl.Update answered.
AfterUpdate(res) == IF res = "ok" THEN "loop" ELSE "done"

\* u.SetResourceVersion(...); cl.Update(context.TODO(), u)  /  cl.Update(context.TODO(), obj)
DoUpdate ==
    /\ pc = "update"
    /\ LET arg == UpdateArg(objs[i]) IN
       \E res \in UpdateOutcomes(arg) :
        /\ log' = Append(log, Call("Update", i, ObjKey(arg), arg.rv, arg.data, res))
        /\ pc' = AfterUpdate(res)
        /\ IF res = "ok"
           THEN /\ cluster' = Store(arg)
                /\ rev' = rev + 1
                /\ objs' = [objs EXCEPT ![i] = WrittenBack(arg)]
           ELSE /\ UNCHANGED <<cluster, rev>>
                /\ objs' = [objs EXCEPT ![i] = arg]
        /\ i' = IF pc' = "loop" THEN i + 1 ELSE i
        /\ result' = IF pc' = "done" THEN "err" ELSE result
    /\ existing' = NoRes
    /\ UNCHANGED <<rendered, enforce, applyNo, prev, others>>

\* The caller applies the same sequence once more: either the very objects of
\* the first call, or the sequence rendered afresh.
ApplyAgain ==
    /\ pc = "done"
    /\ applyNo = 1
    /\ \E fresh \in BOOLEAN :
        /\ objs' = IF fresh THEN rendered ELSE objs
        /\ prev' = [result |-> result, cluster |-> cluster, fresh |-> fresh]
    /\ applyNo' = 2
    /\ pc' = "loop"
    /\ i' = 1
    /\ log' = <<>>
    /\ result' = "none"
    /\ UNCHANGED <<rendered, cluster, rev, enforce, existing, others>>

\* The resources Apply has yet to read or write: those named by the entry it
\* is at and by the entries after it.
Ahead == { ObjKey(rendered[p]) : p \in { q \in i..Len(rendered) : ~IsNil(rendered[q]) } }

\* Another client creates, rewrites or deletes one of those resources while
\* Apply runs.
OtherWrite ==
    /\ pc # "done"
    /\ others < MaxOther
    /\ \E k \in Ahead :
        \/ /\ cluster' = [cluster EXCEPT ![k] = Res("dx", rev + 1)]
           /\ rev' = rev + 1
        \/ /\ cluster[k].exists
           /\ cluster' = [cluster EXCEPT ![k] = NoRes]
           /\ rev' = rev + 1
    /\ others' = others + 1
    /\ UNCHANGED <<rendered, objs, enforce, pc, i, existing, log, result, applyNo, prev>>

(***************************************************************************)
(* Apply with each cluster call split into request and answer              *)
(***************************************************************************)
Request(op, pos) == [op |-> op, pos |-> pos]

\* Apply goes on with the loop while the call is outstanding.
AfterSendMovesOn(p) == "loop"

\* cl.Create, cl.Get and cl.Update are synchronous: createOrUpdateObj stays at
\* the call until it has its result.
AfterSend(p) == p

\* The request of the call Apply is at goes out.
Send ==
    /\ pc \in {"create", "get", "update"}
    /\ Request(pc, i) \notin inflight
    /\ inflight' = inflight \cup {Request(pc, i)}
    /\ pc' = AfterSend(pc)
    /\ i' = IF pc' = "loop" THEN i + 1 ELSE i
    /\ UNCHANGED <<rendered, objs, cluster, rev, enforce, existing, log, result,
                   applyNo, prev, others>>

\* The answers: the call takes effect on the cluster and returns.
AnswerCreate ==
    /\ Request("create", i) \in inflight
    /\ inflight' = inflight \ {Request("create", i)}
    /\ DoCreate

AnswerGet ==
    /\ Request("get", i) \in inflight
    /\ inflight' = inflight \ {Request("get", i)}
    /\ DoGet

AnswerUpdate ==
    /\ Request("update", i) \in inflight
    /\ inflight' = inflight \ {Request("update", i)}
    /\ DoUpdate

(***************************************************************************)
(* Properties of Apply                                                     *)
(***************************************************************************)
\* The calls the current Apply call issued for the entry at position p.
CallsFor(p) == SelectSeq(log, LAMBDA c : c.pos = p)

\* Apply is past the entry at position p.
Finished(p) == i > p \/ pc = "done"

Identity(e) ==
    [kind |-> e.kind, apiVersion |-> e.apiVersion, namespace |-> e.namespace, name |-> e.name]

Succeeded(c) == c.res = "ok"
Failed(c) == c.res \notin {"ok", "exists"}

\* C1: for a generic object whose Create answers "already exists", Apply issues
\* exactly one Create, then exactly one Get for the object's
\* kind/apiVersion/name/namespace, then (the Get having answered) exactly one
\* Update, and the object passed to the Update carries the token the Get returned.
C1_GenericExistingCreateGetUpdate ==
    \A p \in 1..Len(objs) :
        LET cs == CallsFor(p) IN
        (Len(cs) >= 1 /\ cs[1].res = "exists" /\ ~rendered[p].typed) =>
            /\ cs[1].op = "Create"
            /\ Len(cs) <= 3
            /\ Len(cs) >= 2 => (cs[2].op = "Get" /\ cs[2].key = Identity(rendered[p]))
            /\ Len(cs) = 3 => /\ cs[2].res = "ok"
                              /\ cs[3].op = "Update"
                              /\ cs[3].key = Identity(rendered[p])
                              /\ cs[3].rv = cs[2].rv
            /\ (Finished(p) /\ Len(cs) >= 2 /\ cs[2].res = "ok") => Len(cs) = 3
            /\ Finished(p) => Len(cs) >= 2

C1_Witness ==
    \E p \in 1..Len(objs) :
        LET cs == CallsFor(p) IN
        /\ ~rendered[p].typed
        /\ Finished(p)
        /\ Len(cs) = 3
        /\ cs[1].res = "exists"
        /\ cs[2].rv > 0
        /\ cs[3].rv = cs[2].rv
        /\ cs[3].res = "ok"

\* C2: for an object that does not exist yet (its Create succeeds), Apply
\* issues exactly one Create and no Get and no Update.
C2_CreatedOnlyCreate ==
    \A p \in 1..Len(objs) :
        LET cs == CallsFor(p) IN
        (Len(cs) >= 1 /\ cs[1].res = "ok") =>
            /\ cs[1].op = "Create"
            /\ Len(cs) = 1
            /\ i > p

C2_Witness ==
    /\ pc = "done"
    /\ result = "ok"
    /\ \E p \in 1..Len(objs) :
        /\ Len(CallsFor(p)) = 1
        /\ CallsFor(p)[1].op = "Create"
        /\ CallsFor(p)[1].res = "ok"
        /\ cluster[Identity(rendered[p])].exists

\* C3: for a strongly-typed object whose Create answers "already exists", Apply
\* issues exactly one Create followed by exactly one Update, and never a Get.
C3_TypedExistingCreateUpdate ==
    \A p \in 1..Len(objs) :
        LET cs == CallsFor(p) IN
        (Len(cs) >= 1 /\ cs[1].res = "exists" /\ rendered[p].typed) =>
            /\ cs[1].op = "Create"
            /\ Len(cs) <= 2
            /\ \A n \in 1..Len(cs) : cs[n].op # "Get"
            /\ Len(cs) = 2 => (cs[2].op = "Update" /\ cs[2].key = Identity(rendered[p]))
            /\ Finished(p) => Len(cs) = 2

C3_Witness ==
    \E p \in 1..Len(objs) :
        LET cs == CallsFor(p) IN
        /\ rendered[p].typed
        /\ Finished(p)
        /\ Len(cs) = 2
        /\ cs[1].res = "exists"
        /\ cs[2].op = "Update"
        /\ cs[2].res = "ok"

\* C4: if the Create of the object at position p fails for a reason other than
\* "already exists", Apply returns an error and that Create is the last cluster
\* call it issues: none follows for p nor for any later position.
C4_CreateErrorAborts ==
    \A n \in 1..Len(log) :
        (log[n].op = "Create" /\ Failed(log[n])) =>
            /\ n = Len(log)
            /\ pc = "done"
            /\ result = "err"
            /\ \A m \in 1..Len(log) : log[m].pos <= log[n].pos

C4_Witness ==
    /\ Len(objs) >= 2
    /\ ~IsNil(objs[2])
    /\ Len(log) >= 1
    /\ log[Len(log)].op = "Create"
    /\ log[Len(log)].pos = 1
    /\ Failed(log[Len(log)])
    /\ result = "err"

\* The last successful write of the current Apply call to resource k (0: none).
LastWrite(k) ==
    LET W == { n \in 1..Len(log) :
                 log[n].key = k /\ log[n].op \in {"Create", "Update"} /\ Succeeded(log[n]) }
    IN IF W = {} THEN 0 ELSE CHOOSE n \in W : \A m \in W : m <= n

\* What the writes of the current Apply call leave on resource k.
Applied(k) ==
    IF LastWrite(k) = 0 THEN [exists |-> prev.cluster[k].exists, data |-> prev.cluster[k].data]
    ELSE [exists |-> TRUE, data |-> log[LastWrite(k)].data]

Visible(k) == [exists |-> cluster[k].exists, data |-> cluster[k].data]

\* C5: Apply returns the first failure of any step and aborts without rollback:
\* a failed call is the last call and makes Apply return an error; every
\* non-nil object before the failing position was created or updated, and
\* (no other client writing) the cluster holds exactly what those writes left;
\* no call is issued for a later position.
C5_FirstFailureNoRollback ==
    /\ \A n \in 1..Len(log) : Failed(log[n]) => (n = Len(log) /\ pc = "done" /\ result = "err")
    /\ (pc = "done" /\ result = "err") =>
        /\ Len(log) >= 1
        /\ Failed(log[Len(log)])
        /\ log[Len(log)].pos = i
        /\ \A n \in 1..Len(log) : log[n].pos <= i
        /\ \A p \in 1..(i - 1) :
            ~IsNil(objs[p]) =>
                \E n \in 1..Len(log) :
                    log[n].pos = p /\ log[n].op \in {"Create", "Update"} /\ Succeeded(log[n])
        /\ others = 0 => \A k \in Keys : Visible(k) = Applied(k)
    /\ (pc = "done" /\ result = "ok") => \A n \in 1..Len(log) : ~Failed(log[n])

C5_Witness ==
    /\ pc = "done"
    /\ result = "err"
    /\ others = 0
    /\ i = 2
    /\ Len(objs) >= 2
    /\ ~IsNil(objs[1])
    /\ log[Len(log)].op = "Update"
    /\ \E n \in 1..Len(log) : log[n].pos = 1 /\ log[n].op = "Update" /\ Succeeded(log[n])
    /\ cluster[Identity(rendered[1])].data = rendered[1].data

\* C6 as claimed: whenever Apply returns without error and no other client
\* wrote during the call, every entry with a non-nil object exists on the
\* cluster with the desired state of the rendered object.
C6_EveryEntryDesired ==
    (pc = "done" /\ result = "ok" /\ others = 0) =>
        \A p \in 1..Len(rendered) :
            ~IsNil(rendered[p]) =>
                /\ cluster[Identity(rendered[p])].exists
                /\ cluster[Identity(rendered[p])].data = rendered[p].data

\* The entry at p is the last entry of the sequence for its resource.
LastForResource(p) ==
    \A q \in (p + 1)..Len(rendered) :
        IsNil(rendered[q]) \/ Identity(rendered[q]) # Identity(rendered[p])

\* C6 amended: whenever Apply returns without error and no other client wrote
\* during the call, every resource named by a non-nil entry exists on the
\* cluster, with the desired state of the last entry that names it.
C6_LastEntryDesired ==
    (pc = "done" /\ result = "ok" /\ others = 0) =>
        \A p \in 1..Len(rendered) :
            ~IsNil(rendered[p]) =>
                /\ cluster[Identity(rendered[p])].exists
                /\ LastForResource(p) =>
                      cluster[Identity(rendered[p])].data = rendered[p].data

C6_Witness ==
    /\ pc = "done"
    /\ result = "ok"
    /\ others = 0
    /\ Len(rendered) = 2
    /\ ~IsNil(rendered[1])
    /\ ~IsNil(rendered[2])
    /\ Identity(rendered[1]) = Identity(rendered[2])
    /\ rendered[1].data # rendered[2].data
    /\ cluster[Identity(rendered[2])].data = rendered[2].data
    /\ prev.cluster[Identity(rendered[2])].exists

\* The second Apply call met no failure of the cluster itself.
NoTransient == \A n \in 1..Len(log) : log[n].res # "error"

SameAsAfterFirst == \A k \in Keys : Visible(k) = [exists |-> prev.cluster[k].exists,
                                                  data |-> prev.cluster[k].data]

AllGeneric == \A p \in 1..Len(rendered) : IsNil(rendered[p]) \/ ~rendered[p].typed

C13_OneCallAtATimeInOrder ==
    /\ Cardinality(inflight) <= 1
    /\ \A c \in inflight :
          /\ c.pos = i
          /\ c.op = pc
          /\ \A n \in 1..Len(log) : log[n].pos <= c.pos
    /\ \A m, n \in 1..Len(log) : m < n => log[m].pos <= log[n].pos
    /\ pc = "loop" => inflight = {}
    /\ pc = "done" => inflight = {}

C13_Witness ==
    /\ Len(objs) = 2
    /\ inflight = {Request("get", 2)}
    /\ Len(log) = 4
    /\ log[3].pos = 1
    /\ log[3].op = "Update"
    /\ log[4].pos = 2

\* The calls of one kind the current Apply call issued for position p.
CallsOf(p, op) == SelectSeq(log, LAMBDA c : c.pos = p /\ c.op = op)

\* C14: no retry: within one Apply call each object gets at most one Create,
\* one Get and one Update, whatever their outcomes, so Apply over n objects
\* issues at most 3n cluster calls.
C14_NoRetryAtMostThreeCalls ==
    /\ \A m, n \in 1..Len(log) :
          (log[m].pos = log[n].pos /\ log[m].op = log[n].op) => m = n
    /\ \A n \in 1..Len(log) : log[n].pos \in 1..Len(objs) /\ log[n].op \in {"Create", "Get", "Update"}
    /\ Len(log) <= 3 * Len(objs)
    /\ pc # "done" => (i <= Len(objs) + 1 /\ result = "none")

C14_Witness ==
    /\ pc = "done"
    /\ Len(objs) = 2
    /\ Len(log) = 6
    /\ log[6].res = "conflict"
    /\ others = 1

\* C15: an entry with a nil Object is skipped: Apply issues no cluster call
\* for it, does not fail because of it, and goes on with the entries after it.
C15_NilEntrySkipped ==
    /\ \A p \in 1..Len(objs) : IsNil(rendered[p]) => CallsFor(p) = <<>>
    /\ (pc = "done" /\ result = "err") => (i <= Len(objs) /\ ~IsNil(rendered[i]))
    /\ pc = "done" =>
          \A p \in 1..Len(objs) :
              (~IsNil(rendered[p]) /\ (result # "err" \/ p <= i)) => Len(CallsFor(p)) >= 1

C15_Witness ==
    /\ pc = "done"
    /\ result = "ok"
    /\ Len(objs) = 2
    /\ IsNil(rendered[1])
    /\ ~IsNil(rendered[2])
    /\ Len(log) >= 1
    /\ \A n \in 1..Len(log) : log[n].pos = 2

\* The cluster rejected the update for its version token: stale (conflict), or
\* missing where the cluster demands one (invalid).
Rejected(c) == c.op = "Update" /\ c.res \in {"conflict", "invalid"}

\* C16: if the update of an existing object is rejected for its version token
\* (a generic object: another client changed the resource between the Get and
\* the Update; a typed object: no token was read back), Apply returns the
\* error without another attempt, and what the cluster holds is not
\* overwritten: after a conflict the resource is as the other client wrote it.
C16_ConflictSurfacedNotRetried ==
    \A n \in 1..Len(log) :
        Rejected(log[n]) =>
            /\ n = Len(log)
            /\ pc = "done"
            /\ result = "err"
            /\ Len(CallsOf(log[n].pos, "Update")) = 1
            /\ \A m \in 1..Len(log) :
                  (log[m].pos = log[n].pos /\ log[m].op # "Get") => ~Succeeded(log[m])
            /\ log[n].res = "conflict" =>
                  /\ ~rendered[log[n].pos].typed
                  /\ others >= 1
                  /\ cluster[log[n].key].data = "dx"
                  /\ cluster[log[n].key].rv # log[n].rv
            /\ log[n].res = "invalid" =>
                  /\ rendered[log[n].pos].typed
                  /\ log[n].rv = 0
                  /\ others = 0 => Visible(log[n].key) = Applied(log[n].key)

C16_Witness ==
    /\ pc = "done"
    /\ result = "err"
    /\ Len(log) = 3
    /\ log[2].op = "Get"
    /\ log[2].data = "d0"
    /\ log[3].res = "conflict"
    /\ cluster[log[3].key].data = "dx"

C16_WitnessTyped ==
    /\ pc = "done"
    /\ result = "err"
    /\ Len(log) = 2
    /\ log[2].res = "invalid"
    /\ cluster[log[2].key].data = "d0"

\* C17: when the Get of an existing generic object fails, Apply issues no
\* Update for the object, leaves the desired object's version token as it
\* was, returns the error and touches no later object.
C17_GetErrorAborts ==
    \A n \in 1..Len(log) :
        (log[n].op = "Get" /\ log[n].res # "ok") =>
            /\ n = Len(log)
            /\ pc = "done"
            /\ result = "err"
            /\ CallsOf(log[n].pos, "Update") = <<>>
            /\ objs[log[n].pos] = rendered[log[n].pos]
            /\ \A m \in 1..Len(log) : log[m].pos <= log[n].pos

C17_Witness ==
    /\ pc = "done"
    /\ result = "err"
    /\ Len(objs) = 2
    /\ ~IsNil(objs[2])
    /\ Len(log) = 2
    /\ log[2].op = "Get"
    /\ log[2].pos = 1
    /\ log[2].res = "notfound"

\* C18: on the generic update path the only field of the desired object that
\* Apply changes is its version token: the Update carries the rendered
\* object's identity and state, nothing of the existing resource, so a
\* successful Update leaves the desired state on the cluster.
C18_OnlyTokenChanges ==
    /\ \A p \in 1..Len(objs) : objs[p] = [rendered[p] EXCEPT !.rv = objs[p].rv]
    /\ \A n \in 1..Len(log) :
          (log[n].op = "Update" /\ ~rendered[log[n].pos].typed) =>
              /\ log[n].key = Identity(rendered[log[n].pos])
              /\ log[n].data = rendered[log[n].pos].data
              /\ (Succeeded(log[n]) /\ n = Len(log) /\ others = 0) =>
                    Visible(log[n].key) = [exists |-> TRUE, data |-> rendered[log[n].pos].data]

C18_Witness ==
    /\ Len(log) = 3
    /\ log[2].op = "Get"
    /\ log[2].data = "d0"
    /\ log[3].op = "Update"
    /\ Succeeded(log[3])
    /\ others = 0
    /\ cluster[log[3].key].data = rendered[1].data
    /\ objs[1].rv > log[2].rv

(***************************************************************************)
(* Process                                                                 *)
(***************************************************************************)
ParamNames   == {"USERNAME", "PROJECT", "TOKEN"}
ParamVals    == {"", "v"}           \* "" is an unset value
Generators   == {"", "expression", "bogus"}   \* only "expression" is registered
OverrideVals == {"", "o"}
GenVals      == {"g1", "g2"}        \* what the random expression generator may yield
FilterChains == { <<>>, <<"RetainNamespaces">>, <<"RetainAllButNamespaces">>,
                  <<"RetainNamespaces", "RetainAllButNamespaces">> }

Param(n, v, g) == [name |-> n, value |-> v, generate |-> g]

\* Parameter lists: names are unique within a template.
ParamLists ==
    { ps \in SeqsUpTo({ Param(n, v, g) : n \in ParamNames, v \in ParamVals, g \in Generators },
                      MaxParams) :
        \A a, b \in 1..Len(ps) : a # b => ps[a].name # ps[b].name }

\* The template's objects: one that uses no parameter, then one per parameter
\* whose state is that parameter's reference.
ObjectsOf(ps) ==
    <<[kind |-> "Namespace", ref |-> "", data |-> "static"]>> \o
    [j \in 1..Len(ps) |->
        [kind |-> IF j % 2 = 1 THEN "RoleBinding" ELSE "Namespace",
         ref |-> ps[j].name, data |-> "${}"]]

\* templateprocessing.GetParameterByName: the index of the first parameter of
\* that name, 0 for nil.
GetParameterByName(ps, name) ==
    IF \E j \in 1..Len(ps) : ps[j].name = name
    THEN CHOOSE j \in 1..Len(ps) : ps[j].name = name /\ \A m \in 1..(j - 1) : ps[m].name # name
    ELSE 0

\* The override keeps the generator directive.
OverrideKeepsGenerate(p, val) == [p EXCEPT !.value = val]

\* v.Value = val; v.Generate = ""
Override(p, val) == [p EXCEPT !.value = val, !.generate = ""]

\* An override that matches no parameter adds one.
InjectedOrAdded(ps, name, val) ==
    IF GetParameterByName(ps, name) # 0
    THEN [ps EXCEPT ![GetParameterByName(ps, name)] = Override(ps[GetParameterByName(ps, name)], val)]
    ELSE Append(ps, Param(name, val, ""))

\* v := GetParameterByName(tmpl, param); if v != nil { v.Value = val; v.Generate = "" }
Injected(ps, name, val) ==
    IF GetParameterByName(ps, name) # 0
    THEN [ps EXCEPT ![GetParameterByName(ps, name)] = Override(ps[GetParameterByName(ps, name)], val)]
    ELSE ps

\* The range loop over `values` is taken to be over before it is.
InjectDoneEarly(pend) == TRUE

\* The range loop over `values` has visited every key.
InjectDone(pend) == pend = {}

\* Expansion's errors are dropped.
ExpandFailedNever(errs) == FALSE

\* len(err) > 0
ExpandFailed(errs) == errs # {}

\* The template is put back as it was given when expansion fails.
OnExpandErrorRestores(t, qs) == given

\* The return on expansion's errors leaves the template as expansion left it.
OnExpandError(t, qs) == [t EXCEPT !.params = qs]

\* Expansion: the parameters that need a value (empty Value, a generator named).
NeedsValue(p) == p.value = "" /\ p.generate # ""

\* Expansion's errors: the parameters whose generator is not registered.
ExpandErrors(ps) == { j \in 1..Len(ps) : NeedsValue(ps[j]) /\ ps[j].generate # "expression" }

\* Expansion's parameter lists: every parameter that needs a value and names
\* the registered generator gets some generated value.
Generated(ps) ==
    { [j \in 1..Len(ps) |->
          IF NeedsValue(ps[j]) /\ ps[j].generate = "expression"
          THEN [ps[j] EXCEPT !.value = f[j]]
          ELSE ps[j]] : f \in [1..Len(ps) -> GenVals] }

\* Expansion's objects: each parameter reference replaced by the parameter's value.
Substituted(os, ps) ==
    [j \in 1..Len(os) |->
        IF GetParameterByName(ps, os[j].ref) # 0
        THEN [os[j] EXCEPT !.data = ps[GetParameterByName(ps, os[j].ref)].value]
        ELSE os[j]]

\* RetainNamespaces, RetainAllButNamespaces
Accepts(f, o) ==
    IF f = "RetainNamespaces" THEN o.kind = "Namespace" ELSE o.kind # "Namespace"

\* Filter(objs, filters...): the objects every filter accepts, in order.
Filter(os, fs) == SelectSeq(os, LAMBDA o : \A n \in 1..Len(fs) : Accepts(fs[n], o))

NoResult == [err |-> "none", objects |-> <<>>]

ProcInit ==
    /\ \E ps \in ParamLists : given = [params |-> ps, objects |-> ObjectsOf(ps)]
    /\ tmpl = given
    /\ values \in UNION { [D -> OverrideVals] : D \in SUBSET ParamNames }
    /\ filters \in FilterChains
    /\ pending = DOMAIN values
    /\ ppc = "inject"
    /\ steps = <<>>
    /\ atExpand = <<>>
    /\ converted = <<>>
    /\ pres = NoResult

\* One round of: for param, val := range values { ... }
\* (a map is ranged in any order)
Inject ==
    /\ ppc = "inject"
    /\ \E param \in pending :
        /\ tmpl' = [tmpl EXCEPT !.params = Injected(tmpl.params, param, values[param])]
        /\ pending' = pending \ {param}
    /\ steps' = Append(steps, "inject")
    /\ UNCHANGED <<given, values, filters, ppc, atExpand, converted, pres>>

\* tmplProcessor.Process(tmpl), and the return on its errors.
Expand ==
    /\ ppc = "inject"
    /\ InjectDone(pending)
    /\ atExpand' = tmpl.params
    /\ steps' = Append(steps, "expand")
    /\ \E qs \in Generated(tmpl.params) :
        IF ExpandFailed(ExpandErrors(tmpl.params))
        THEN /\ tmpl' = OnExpandError(tmpl, qs)
             /\ pres' = [err |-> "process", objects |-> <<>>]
             /\ ppc' = "done"
        ELSE /\ tmpl' = [params |-> qs, objects |-> Substituted(tmpl.objects, qs)]
             /\ pres' = pres
             /\ ppc' = "convert"
    /\ UNCHANGED <<given, values, filters, pending, converted>>

\* p.scheme.Convert(tmpl, &result, nil), and the return on its error.
Convert ==
    /\ ppc = "convert"
    /\ steps' = Append(steps, "convert")
    /\ \E ok \in BOOLEAN :
        IF ok
        THEN /\ converted' = tmpl.objects
             /\ ppc' = "filter"
             /\ pres' = pres
        ELSE /\ converted' = converted
             /\ ppc' = "done"
             /\ pres' = [err |-> "convert", objects |-> <<>>]
    /\ UNCHANGED <<given, tmpl, values, filters, pending, atExpand>>

\* The converted objects are returned as they are.
ReturnUnfiltered ==
    /\ ppc = "filter"
    /\ steps' = Append(steps, "filter")
    /\ pres' = [err |-> "none", objects |-> converted]
    /\ ppc' = "done"
    /\ UNCHANGED <<given, tmpl, values, filters, pending, atExpand, converted>>

\* return Filter(result.Objects, filters...), nil
Return ==
    /\ ppc = "filter"
    /\ steps' = Append(steps, "filter")
    /\ pres' = [err |-> "none", objects |-> Filter(converted, filters)]
    /\ ppc' = "done"
    /\ UNCHANGED <<given, tmpl, values, filters, pending, atExpand, converted>>

\* No Process call in the specifications of Apply.
ProcIdle ==
    /\ given = [params |-> <<>>, objects |-> <<>>]
    /\ tmpl = given
    /\ values = <<>>
    /\ filters = <<>>
    /\ pending = {}
    /\ ppc = "done"
    /\ steps = <<>>
    /\ atExpand = <<>>
    /\ converted = <<>>
    /\ pres = NoResult

\* No Apply call in the specification of Process.
ApplyIdle ==
    /\ rendered = <<>>
    /\ objs = <<>>
    /\ cluster = [k \in Keys |-> NoRes]
    /\ rev = 1
    /\ enforce = FALSE
    /\ pc = "done"
    /\ i = 1
    /\ existing = NoRes
    /\ log = <<>>
    /\ result = "ok"
    /\ applyNo = 1
    /\ prev = [result |-> "none", cluster |-> cluster, fresh |-> FALSE]
    /\ others = 0
    /\ inflight = {}

(***************************************************************************)
(* Properties of Process                                                   *)
(***************************************************************************)
\* Parameter j of the template is named by an override the loop has visited.
Visited(j) == given.params[j].name \in (DOMAIN values \ pending)

Expanded == ppc # "inject"

Unmatched(n) == \A j \in 1..Len(given.params) : given.params[j].name # n

\* The parameters after the overrides named in D: the named ones hold the
\* override value and no generator directive, the others are as given.
WithOverrides(D) ==
    [j \in 1..Len(given.params) |->
        IF given.params[j].name \in D
        THEN Param(given.params[j].name, values[given.params[j].name], "")
        ELSE given.params[j]]

\* C9: an override whose name matches no parameter is a no-op: the loop raises
\* no error, adds no parameter and changes no parameter for it, while the
\* overrides of the same map that do match are applied.
C9_UnmatchedOverrideNoOp ==
    /\ Len(tmpl.params) = Len(given.params)
    /\ ppc = "inject" =>
          /\ tmpl.params = WithOverrides(DOMAIN values \ pending)
          /\ tmpl.objects = given.objects
          /\ pres = NoResult
    /\ Expanded => atExpand = WithOverrides(DOMAIN values)

C9_Witness ==
    /\ ppc = "done"
    /\ pres.err = "none"
    /\ \E n \in DOMAIN values : Unmatched(n)
    /\ \E j \in 1..Len(given.params) :
        /\ given.params[j].name \in DOMAIN values
        /\ given.params[j].value # values[given.params[j].name]
        /\ atExpand[j].value = values[given.params[j].name]
    /\ \E j \in 1..Len(given.params) :
        /\ given.params[j].name \notin DOMAIN values
        /\ atExpand[j] = given.params[j]

\* C10: every override is applied before expansion starts, and if expansion
\* reports an error Process returns an error and no objects, and performs
\* neither the conversion nor the filter step.
C10_ExpansionErrorFailsProcess ==
    /\ Expanded =>
          /\ pending = {}
          /\ Len(steps) > Cardinality(DOMAIN values)
          /\ \A n \in 1..Cardinality(DOMAIN values) : steps[n] = "inject"
          /\ steps[Cardinality(DOMAIN values) + 1] = "expand"
          /\ \A n \in (Cardinality(DOMAIN values) + 1)..Len(steps) : steps[n] # "inject"
    /\ (Expanded /\ ExpandErrors(atExpand) # {}) =>
          /\ ppc = "done"
          /\ pres.err = "process"
          /\ pres.objects = <<>>
          /\ steps[Len(steps)] = "expand"
          /\ converted = <<>>

C10_Witness ==
    /\ ppc = "done"
    /\ pres.err = "process"
    /\ DOMAIN values # {}
    /\ \E j \in 1..Len(given.params) :
        /\ given.params[j].name \in DOMAIN values
        /\ atExpand[j].value = values[given.params[j].name]
    /\ \E j \in 1..Len(atExpand) : atExpand[j].generate = "bogus" /\ atExpand[j].value = ""

\* An object every filter of the chain accepts.
Retained(o) == \A n \in 1..Len(filters) : Accepts(filters[n], o)

GeneratorFree ==
    \A j \in 1..Len(given.params) :
        given.params[j].name \in DOMAIN values \/ ~NeedsValue(given.params[j])

\* The value a parameter reference resolves to, from the inputs alone.
InputValue(ref) ==
    LET j == CHOOSE j \in 1..Len(given.params) : given.params[j].name = ref
    IN IF ref \in DOMAIN values THEN values[ref] ELSE given.params[j].value

\* The objects Process returns, as a function of its inputs alone.
InputObjects ==
    SelectSeq([j \in 1..Len(given.objects) |->
                  IF \E m \in 1..Len(given.params) : given.params[m].name = given.objects[j].ref
                  THEN [given.objects[j] EXCEPT !.data = InputValue(given.objects[j].ref)]
                  ELSE given.objects[j]],
              Retained)

\* C12: for a template in which no parameter depends on a generator after the
\* overrides, the object list Process returns is determined by the template,
\* the override map and the filters alone, so two runs on equal inputs return
\* equal lists (whatever order the override map is ranged in).
C12_DeterministicWithoutGenerators ==
    (ppc = "done" /\ pres.err = "none" /\ GeneratorFree) => pres.objects = InputObjects

C12_Witness ==
    /\ ppc = "done"
    /\ pres.err = "none"
    /\ GeneratorFree
    /\ Cardinality(DOMAIN values) >= 2
    /\ \E j \in 1..Len(given.params) :
        /\ given.params[j].generate = "expression"
        /\ given.params[j].value = ""
        /\ given.params[j].name \in DOMAIN values
    /\ \E n \in 1..Len(pres.objects) : pres.objects[n].data \in OverrideVals

C19_WitnessConvert ==
    /\ ppc = "done"
    /\ pres.err = "convert"
    /\ \E j \in 1..Len(given.params) :
        /\ given.params[j].name \in DOMAIN values
        /\ given.params[j].value # values[given.params[j].name]
        /\ tmpl.params[j].value = values[given.params[j].name]

Init == ApplyInit /\ ProcIdle

Next ==
    \/ ApplyLoop /\ UNCHANGED <<procVars, inflight>>
    \/ DoCreate /\ UNCHANGED <<procVars, inflight>>
    \/ DoGet /\ UNCHANGED <<procVars, inflight>>
    \/ DoUpdate /\ UNCHANGED <<procVars, inflight>>
    \/ OtherWrite /\ UNCHANGED <<procVars, inflight>>

Spec == Init /\ [][Next]_vars

AgainNext ==
    \/ ApplyLoop /\ UNCHANGED <<procVars, inflight>>
    \/ DoCreate /\ UNCHANGED <<procVars, inflight>>
    \/ DoGet /\ UNCHANGED <<procVars, inflight>>
    \/ DoUpdate /\ UNCHANGED <<procVars, inflight>>
    \/ ApplyAgain /\ UNCHANGED <<procVars, inflight>>

AgainSpec == Init /\ [][AgainNext]_vars

SeqNext ==
    \/ ApplyLoop /\ UNCHANGED <<procVars, inflight>>
    \/ Send /\ UNCHANGED procVars
    \/ AnswerCreate /\ UNCHANGED procVars
    \/ AnswerGet /\ UNCHANGED procVars
    \/ AnswerUpdate /\ UNCHANGED procVars

SeqSpec == Init /\ [][SeqNext]_vars

ProcInitAll == ProcInit /\ ApplyIdle

ProcNext ==
    \/ Inject /\ UNCHANGED applyVars
    \/ Expand /\ UNCHANGED applyVars
    \/ Convert /\ UNCHANGED applyVars
    \/ Return /\ UNCHANGED applyVars

ProcSpec == ProcInitAll /\ [][ProcNext]_vars

====
